---- MODULE Spec2Model ----
(***************************************************************************)
(* django-deprecated-field: the deprecation wrapper DeprecatedField, its   *)
(* attribute descriptor, the Null query expression and the escalation      *)
(* function log_or_raise, as a state machine.                              *)
(*                                                                         *)
(* The package ships the wrapper twice: deprecated_field/__init__.py       *)
(* defines DeprecatedFieldAccessError, log_or_raise, the descriptor, Null, *)
(* DeprecatedField and deprecated(); deprecated_field/fields.py, utils.py  *)
(* and expressions.py define them again (fields.py without get_default and *)
(* without a deprecated() factory).  Both are modelled; the class of the   *)
(* wrapper object says which one is in use.                                *)
(*                                                                         *)
(* Python values are strings: "None", "DEFERRED", "int:5", "str:5", ...    *)
(***************************************************************************)
EXTENDS Integers, Sequences, FiniteSets, TLC

VARIABLES settings, fields, instances, log, last, touches

vars == <<settings, fields, instances, log, last, touches>>

\* ---------------------------------------------------------------- bounds
MaxTouch == 2
MaxInstances == 2
MaxClones == 2

\* ---------------------------------------------------------------- values
None == "None"
DEFERRED == "DEFERRED"
Absent == "absent"

\* the values STRICT_DEPRECATED_FIELD can hold; "None" is the unset flag
FlagValues == {"None", "True", "False"}

\* values a caller passes for the deprecated field: to .update(), and to the
\* constructor or an assignment
Values == {"None", "int:5", "str:5"}
SetValues == {"None", "str:5"}

PkgField == "deprecated_field.DeprecatedField"
ModField == "deprecated_field.fields.DeprecatedField"
PkgError == "deprecated_field.DeprecatedFieldAccessError"
UtilsError == "deprecated_field.utils.DeprecatedFieldAccessError"

\* tests/models.py: class Genre, name = deprecated(models.CharField())
Genre == [module |-> "tests.models", qualname |-> "Genre"]
NoModel == [module |-> "", qualname |-> ""]
FieldName == "name"

\* object ids in the heap `fields`
F == 1
W == 2

OriginalFields ==
    { [cls |-> c.cls, max_length |-> c.max_length, null |-> c.null, original_field |-> 0,
       concrete |-> Absent, model |-> NoModel, name |-> ""] :
        c \in { [cls |-> "CharField", max_length |-> "256", null |-> FALSE],
                [cls |-> "IntegerField", max_length |-> "None", null |-> TRUE] } }

\* ------------------------------------------------------- message formats
GetInstanceFormat ==
    <<"Accessed deprecated field \"", "%s", "\" on instance of \"", "%s", ".", "%s", "\"">>
GetClassFormat ==
    <<"Accessed deprecated field \"", "%s", "\" on model class \"", "%s", ".", "%s", "\"">>
SetFormat ==
    <<"Tried to set deprecated field \"", "%s", "\" on instance of \"", "%s", ".", "%s", "\"">>
GetColFormat ==
    <<"Deprecated field \"", "%s", "\" on \"", "%s", ".", "%s", "\" referenced in query">>
PrepSaveFormat ==
    <<"Writing to deprecated field \"", "%s", "\" on \"", "%s", ".", "%s", "\"">>

\* message_format % args: the i-th "%s" is replaced by the i-th argument
RECURSIVE Format(_, _)
Format(message_format, args) ==
    IF message_format = <<>> THEN <<>>
    ELSE IF Head(message_format) = "%s"
         THEN <<Head(args)>> \o Format(Tail(message_format), Tail(args))
         ELSE <<Head(message_format)>> \o Format(Tail(message_format), args)

\* ------------------------------------------------------------ escalation
NoErr == [cls |-> "none", message |-> <<>>]

\* getattr(settings, "STRICT_DEPRECATED_FIELD", None) is True
IsStrictNotNone(flag) == flag # "None"
IsStrict(flag) == flag = "True"

\* the exception class each module's log_or_raise raises
ErrorClassOf(wrapperCls) == IF wrapperCls = PkgField THEN PkgError ELSE UtilsError

\* the logger each module's log_or_raise writes to: logging.getLogger(__name__)
LoggerOf(wrapperCls) == IF wrapperCls = PkgField THEN "deprecated_field" ELSE "deprecated_field.utils"

Bases(cls) == IF cls \in {PkgError, UtilsError} THEN {cls, "Exception"} ELSE {cls}
IsInstance(err, cls) == cls \in Bases(err.cls)

\* log_or_raise(message_format, *args), of the module wrapperCls lives in, run
\* against the flag as it is now and the log lg
log_or_raise(wrapperCls, lg, message_format, args) ==
    IF IsStrict(settings)
    THEN [raised |-> TRUE,
          err |-> [cls |-> ErrorClassOf(wrapperCls), message |-> Format(message_format, args)],
          log |-> lg]
    ELSE [raised |-> FALSE,
          err |-> NoErr,
          log |-> Append(lg, [name |-> LoggerOf(wrapperCls), levelname |-> "ERROR",
                              msg |-> message_format, args |-> args, stack_info |-> TRUE])]

\* LogRecord.getMessage(): msg % args
getMessage(record) == Format(record.msg, record.args)

\* ------------------------------------------------------------ descriptor
\* the (field name, module, qualname) arguments every call site passes
Args(field) == <<field.name, field.model.module, field.model.qualname>>

\* DeprecatedFieldDescriptor.__get__(instance, cls): the message formats of the
\* log_or_raise calls it makes; it then falls off the end and returns None
descriptor_get_swapped(instance, cls) ==
    IF instance # None THEN <<GetClassFormat>>
    ELSE IF cls # None THEN <<GetInstanceFormat>>
    ELSE <<>>
descriptor_get(instance, cls) ==
    IF instance # None THEN <<GetInstanceFormat>>
    ELSE IF cls # None THEN <<GetClassFormat>>
    ELSE <<>>

\* DeprecatedFieldDescriptor.__set__(instance, value): what instance.__dict__
\* holds for the field afterwards, given what it held before
descriptor_set_storing(stored, value) == value
descriptor_set(stored, value) == stored

\* ------------------------------------------------------------ the wrapper
\* DeprecatedField.__init__(original_field): super().__init__() and the reference
DeprecatedField_init(cls, original_field) ==
    [cls |-> cls, max_length |-> "None", null |-> FALSE, original_field |-> original_field,
     concrete |-> Absent, model |-> NoModel, name |-> ""]

\* deprecated(original_field): the heap afterwards
deprecated(fs, original_field) ==
    Append([fs EXCEPT ![original_field].null = TRUE],
           DeprecatedField_init(PkgField, original_field))

\* DeprecatedField.contribute_to_class(cls, name): super() binds name and model and
\* sets concrete from the column, then concrete is overwritten
contribute_to_class_concrete(field, cls, name) ==
    [field EXCEPT !.name = name, !.model = cls, !.concrete = "True"]
contribute_to_class(field, cls, name) ==
    [field EXCEPT !.name = name, !.model = cls, !.concrete = "False"]

\* Field.clone() of the framework: a new unbound field of the same class built
\* from the same constructor arguments
FieldCopy(field) ==
    [cls |-> field.cls, max_length |-> field.max_length, null |-> field.null,
     original_field |-> field.original_field,
     concrete |-> Absent, model |-> NoModel, name |-> ""]

\* DeprecatedField.clone(): the heap afterwards and the object returned
clone_of_wrapper(fs, self) ==
    [heap |-> Append(fs, FieldCopy(fs[self])), ref |-> Len(fs) + 1]
clone_rebinding(fs, self) ==
    [heap |-> [Append(fs, FieldCopy(fs[fs[self].original_field]))
                  EXCEPT ![self].original_field = Len(fs) + 1],
     ref |-> Len(fs) + 1]
clone(fs, self) ==
    [heap |-> Append(fs, FieldCopy(fs[fs[self].original_field])), ref |-> Len(fs) + 1]

\* DeprecatedField.get_col(alias, output_field): the expression returned after
\* the escalation; 0 is output_field=None
NoExpr == [cls |-> "none", output_field |-> 0]
get_col_self_typed(self, alias, output_field) ==
    [cls |-> "Null", output_field |-> self]
get_col(self, alias, output_field) ==
    [cls |-> "Null", output_field |-> IF output_field # 0 THEN output_field ELSE self]

\* Null.as_sql(compiler, connection)
as_sql(self, compiler, connection) == [sql |-> "NULL", params |-> <<>>]

\* Field.get_db_prep_value(value, connection, prepared=False) of the wrapper's own
\* class, a plain models.Field: get_prep_value returns the value as it is
get_db_prep_value(self, value) == value

\* DeprecatedField.get_db_prep_save(value, connection): the value returned after
\* the escalation
get_db_prep_save(self, value) == get_db_prep_value(self, value)

\* what the original field's class prepares for the column: CharField and
\* IntegerField convert through to_python / int
original_get_db_prep_save(field, value) ==
    IF value = None THEN None
    ELSE IF field.cls = "CharField" THEN (IF value = "int:5" THEN "str:5" ELSE value)
    ELSE IF field.cls = "IntegerField" THEN (IF value = "str:5" THEN "int:5" ELSE value)
    ELSE value

\* get_default(): deprecated_field.DeprecatedField returns DEFERRED; the class of
\* fields.py does not define it and inherits Field.get_default, the empty string
\* for a field built with no default and null=False
get_default(field) == IF field.cls = PkgField THEN DEFERRED ELSE "str:"

\* ---------------------------------------------------------------- state
NoLast ==
    [op |-> "none", outcome |-> "none", argv |-> Absent, argf |-> 0,
     value |-> Absent, expr |-> NoExpr, ref |-> 0, err |-> NoErr, calls |-> 0, emitted |-> 0]

Attached == Len(fields) >= W /\ fields[W].model # NoModel

\* the outcome of an operation that makes the log_or_raise calls `formats` in
\* order and stops at the first that raises; calls counts the calls made
RECURSIVE Escalate(_, _, _, _)
Escalate(wrapperCls, lg, formats, args) ==
    IF formats = <<>> THEN [raised |-> FALSE, err |-> NoErr, log |-> lg, calls |-> 0]
    ELSE LET r == log_or_raise(wrapperCls, lg, Head(formats), args)
         IN  IF r.raised
             THEN [raised |-> TRUE, err |-> r.err, log |-> r.log, calls |-> 1]
             ELSE LET rest == Escalate(wrapperCls, r.log, Tail(formats), args)
                  IN  [rest EXCEPT !.calls = @ + 1]

\* what the operation leaves behind: a raise carries the error and no result;
\* emitted counts the log records the operation added
Outcome(op, r, argv, argf, value, expr, ref) ==
    IF r.raised
    THEN [NoLast EXCEPT !.op = op, !.outcome = "raised", !.argv = argv, !.argf = argf, !.err = r.err,
                        !.calls = r.calls, !.emitted = Len(r.log) - Len(log)]
    ELSE [NoLast EXCEPT !.op = op, !.outcome = "returned", !.argv = argv, !.argf = argf,
                        !.value = value, !.expr = expr, !.ref = ref,
                        !.calls = r.calls, !.emitted = Len(r.log) - Len(log)]

\* touches counts the touches of the field made while the flag was not True
Touched(n) == touches' = touches + (IF settings = "True" THEN 0 ELSE n)

Init ==
    /\ settings \in FlagValues
    /\ fields \in { <<f>> : f \in OriginalFields }
    /\ instances = <<>>
    /\ log = <<>>
    /\ last = NoLast
    /\ touches = 0

\* ---------------------------------------------------------------- actions
\* override_settings(STRICT_DEPRECATED_FIELD=v), or leaving its block
SetStrict(v) ==
    /\ v # settings
    /\ settings' = v
    /\ UNCHANGED <<fields, instances, log, last, touches>>

\* name = deprecated(models.CharField(...)) in a class body
Call_deprecated ==
    /\ Len(fields) = F
    /\ fields' = deprecated(fields, F)
    /\ UNCHANGED <<settings, instances, log, last, touches>>

\* name = deprecated_field.fields.DeprecatedField(models.CharField(...)): the
\* class of fields.py, which has no factory
Call_DeprecatedField ==
    /\ Len(fields) = F
    /\ fields' = Append(fields, DeprecatedField_init(ModField, F))
    /\ UNCHANGED <<settings, instances, log, last, touches>>

\* the model class is created: the metaclass binds the field once
Call_contribute_to_class ==
    /\ Len(fields) >= W
    /\ fields[W].model = NoModel
    /\ fields' = [fields EXCEPT ![W] = contribute_to_class(fields[W], Genre, FieldName)]
    /\ UNCHANGED <<settings, instances, log, last, touches>>

\* instance.name
Call_get_instance(i) ==
    /\ Attached /\ touches < MaxTouch
    /\ i \in DOMAIN instances
    /\ LET calls == descriptor_get("instance", "Genre")
           r == Escalate(fields[W].cls, log, calls, Args(fields[W]))
       IN  /\ log' = r.log
           /\ last' = Outcome("get_instance", r, Absent, 0, None, NoExpr, 0)
           /\ Touched(1)
    /\ UNCHANGED <<settings, fields, instances>>

\* Genre.name
Call_get_class ==
    /\ Attached /\ touches < MaxTouch
    /\ LET calls == descriptor_get(None, "Genre")
           r == Escalate(fields[W].cls, log, calls, Args(fields[W]))
       IN  /\ log' = r.log
           /\ last' = Outcome("get_class", r, Absent, 0, None, NoExpr, 0)
           /\ Touched(1)
    /\ UNCHANGED <<settings, fields, instances>>

\* instance.name = value
Call_set(i, value) ==
    /\ Attached /\ touches < MaxTouch
    /\ i \in DOMAIN instances
    /\ LET r == Escalate(fields[W].cls, log, <<SetFormat>>, Args(fields[W]))
       IN  /\ log' = r.log
           /\ last' = Outcome("set", r, Absent, 0, None, NoExpr, 0)
           /\ instances' = IF r.raised THEN instances
                           ELSE [instances EXCEPT ![i] = descriptor_set(instances[i], value)]
    /\ Touched(1)
    /\ UNCHANGED <<settings, fields>>

\* the query compiler resolves the field: .values("name")
Call_get_col(alias, output_field) ==
    /\ Attached /\ touches < MaxTouch
    /\ output_field \in {0, F}
    /\ LET r == Escalate(fields[W].cls, log, <<GetColFormat>>, Args(fields[W]))
       IN  /\ log' = r.log
           /\ last' = Outcome("get_col", r, Absent, output_field, Absent,
                              get_col(W, alias, output_field), 0)
    /\ Touched(1)
    /\ UNCHANGED <<settings, fields, instances>>

\* .update(name=value)
Call_get_db_prep_save(value) ==
    /\ Attached /\ touches < MaxTouch
    /\ LET r == Escalate(fields[W].cls, log, <<PrepSaveFormat>>, Args(fields[W]))
       IN  /\ log' = r.log
           /\ last' = Outcome("get_db_prep_save", r, value, 0,
                              get_db_prep_save(W, value), NoExpr, 0)
    /\ Touched(1)
    /\ UNCHANGED <<settings, fields, instances>>

\* the default-value hook, called on its own
Call_get_default ==
    /\ Attached
    /\ last' = [NoLast EXCEPT !.op = "get_default", !.outcome = "returned",
                              !.value = get_default(fields[W])]
    /\ UNCHANGED <<settings, fields, instances, log, touches>>

\* the migration state asks the field for its identity
Call_clone ==
    /\ Attached
    /\ Len(fields) < W + MaxClones
    /\ LET c == clone(fields, W)
       IN  /\ fields' = c.heap
           /\ last' = [NoLast EXCEPT !.op = "clone", !.outcome = "returned",
                                     !.ref = c.ref]
    /\ UNCHANGED <<settings, instances, log, touches>>

\* Genre(**kwargs) and Genre.objects.create(**kwargs): Model.__init__ walks the
\* concrete fields when no keyword is given and all fields otherwise, takes the
\* keyword or get_default(), and assigns unless the value is DEFERRED.
\* other: a keyword for another field (id=1) is given; dep: the keyword for the
\* deprecated field, Absent if not given
Call_Model_init(other, dep) ==
    /\ Attached /\ touches < MaxTouch
    /\ Len(instances) < MaxInstances
    /\ LET noKwargs == ~other /\ dep = Absent
           walked == IF noKwargs THEN fields[W].concrete = "True" ELSE TRUE
           val == IF dep # Absent THEN dep ELSE get_default(fields[W])
           calls == IF walked /\ val # DEFERRED THEN <<SetFormat>> ELSE <<>>
           r == Escalate(fields[W].cls, log, calls, Args(fields[W]))
           op == IF dep = Absent THEN "init_without" ELSE "init_with"
       IN  /\ log' = r.log
           /\ last' = Outcome(op, r, Absent, 0, None, NoExpr, 0)
           /\ Touched(IF dep # Absent THEN 1 ELSE Len(calls))
           /\ instances' = IF r.raised THEN instances
                           ELSE Append(instances,
                                       IF calls = <<>> THEN Absent
                                       ELSE descriptor_set(Absent, val))
    /\ UNCHANGED <<settings, fields>>

\* Genre.objects.bulk_create(objs) of the first k instances: the insert takes
\* pre_save (a getattr) and get_db_prep_save of every concrete field of every
\* object, and of no other field
RECURSIVE Repeat(_, _)
Repeat(s, k) == IF k = 0 THEN <<>> ELSE s \o Repeat(s, k - 1)

Call_bulk_create(k) ==
    /\ Attached
    /\ k \in DOMAIN instances
    /\ LET perObject == IF fields[W].concrete = "True"
                        THEN descriptor_get("instance", "Genre") \o <<PrepSaveFormat>>
                        ELSE <<>>
           calls == Repeat(perObject, k)
           r == Escalate(fields[W].cls, log, calls, Args(fields[W]))
       IN  /\ calls = <<>> \/ touches < MaxTouch
           /\ log' = r.log
           /\ last' = Outcome("bulk_create", r, Absent, k, None, NoExpr, 0)
           /\ Touched(Len(calls))
    /\ UNCHANGED <<settings, fields, instances>>

Aliases == {"tests_genre", "T2"}

Next ==
    \/ \E v \in FlagValues : SetStrict(v)
    \/ Call_deprecated
    \/ Call_DeprecatedField
    \/ Call_contribute_to_class
    \/ \E i \in 1..MaxInstances : Call_get_instance(i)
    \/ Call_get_class
    \/ \E i \in 1..MaxInstances, value \in SetValues : Call_set(i, value)
    \/ \E alias \in Aliases, output_field \in {0, F} : Call_get_col(alias, output_field)
    \/ \E value \in Values : Call_get_db_prep_save(value)
    \/ Call_get_default
    \/ Call_clone
    \/ \E other \in BOOLEAN, dep \in {"str:5", Absent} : Call_Model_init(other, dep)
    \/ \E k \in 1..MaxInstances : Call_bulk_create(k)

Spec == Init /\ [][Next]_vars

\* ---------------------------------------------------------------- claims
\* the message format the interface prescribes for each kind of touch
FormatOf(op) ==
    CASE op = "get_instance" -> GetInstanceFormat
      [] op = "get_class" -> GetClassFormat
      [] op \in {"set", "init_with", "init_without"} -> SetFormat
      [] op = "get_col" -> GetColFormat
      [] op = "get_db_prep_save" -> PrepSaveFormat
      [] OTHER -> <<>>

Logged(record, format) ==
    /\ record.levelname = "ERROR"
    /\ record.msg = format
    /\ getMessage(record) = Format(format, <<FieldName, Genre.module, Genre.qualname>>)

\* C1: every log_or_raise call follows the value STRICT_DEPRECATED_FIELD has at
\* that call: True raises DeprecatedFieldAccessError with the formatted message,
\* logs nothing and the operation yields no result; False or unset logs one
\* error record and returns.
C1_FlagReadAtCallTime ==
    [][(last'.calls = 1 /\ (last' # last \/ log' # log)) =>
        IF settings = "True"
        THEN /\ last'.outcome = "raised"
             /\ last'.err.cls \in {PkgError, UtilsError}
             /\ last'.err.message =
                    Format(FormatOf(last'.op), <<FieldName, Genre.module, Genre.qualname>>)
             /\ log' = log
             /\ last'.value = Absent /\ last'.expr = NoExpr /\ last'.ref = 0
             /\ instances' = instances
        ELSE /\ last'.outcome = "returned"
             /\ last'.err = NoErr
             /\ Len(log') = Len(log) + 1
             /\ SubSeq(log', 1, Len(log)) = log
             /\ log'[Len(log')].levelname = "ERROR"]_vars

\* C1 witness: an access was logged and a later access of the same process raised
C1_Witness ==
    /\ Len(log) >= 1
    /\ last.outcome = "raised"
    /\ settings = "False"

\* C2: in non-strict mode every touch adds exactly one error record, with the
\* format of its kind, and a read returns None; the number of records always
\* equals the number of touches made while the flag was not True.
C2_OneDiagnosticPerTouch ==
    /\ [](Len(log) = touches)
    /\ [][(touches' # touches) =>
            /\ settings # "True"
            /\ touches' = touches + 1
            /\ Len(log') = Len(log) + 1
            /\ SubSeq(log', 1, Len(log)) = log
            /\ Logged(log'[Len(log')], FormatOf(last'.op))
            /\ last'.emitted = 1
            /\ last'.op \in {"get_instance", "get_class"} => last'.value = None]_vars

\* C2 witness: two reads of the field on an instance, two records
C2_Witness ==
    /\ touches = 2
    /\ Len(log) = 2
    /\ log[1].msg = GetInstanceFormat
    /\ log[2].msg = GetInstanceFormat
    /\ last.op = "get_instance" /\ last.value = None

\* C3: constructing an instance without a value for the deprecated field logs
\* nothing and raises nothing.
C3_SilentConstruction ==
    last.op = "init_without" => (last.outcome = "returned" /\ last.emitted = 0)

\* C4: nothing is ever stored on an instance for the field, and a read that
\* returns returns None.
C4_SetIsNoOp ==
    /\ \A i \in DOMAIN instances : instances[i] = Absent
    /\ (last.op = "get_instance" /\ last.outcome = "returned") => last.value = None

\* C4 witness: a read of an instance that was built with a value
C4_Witness ==
    /\ Len(log) = 2
    /\ log[1].msg = SetFormat
    /\ last.op = "get_instance" /\ last.outcome = "returned"
    /\ Len(instances) = 1

\* C5: deprecated(F) makes F nullable, and every clone() of the wrapper returns a
\* new object, neither the wrapper nor F, of F's class and constraints with
\* null true.
C5_CloneFidelity ==
    /\ (Len(fields) >= W /\ fields[W].cls = PkgField) => fields[F].null
    /\ (last.op = "clone" /\ fields[W].cls = PkgField) =>
          /\ last.ref = Len(fields)
          /\ last.ref \notin {F, W}
          /\ fields[last.ref].cls = fields[F].cls
          /\ fields[last.ref].max_length = fields[F].max_length
          /\ fields[last.ref].null
          /\ fields[last.ref] = [FieldCopy(fields[F]) EXCEPT !.null = TRUE]
          /\ fields[last.ref].original_field = 0

\* C5 witness: the second clone of a wrapped CharField(max_length=256)
C5_Witness ==
    /\ last.op = "clone"
    /\ Len(fields) = W + 2
    /\ last.ref = W + 2
    /\ fields[W].cls = PkgField
    /\ fields[F].cls = "CharField" /\ fields[F].max_length = "256"

\* C6: get_db_prep_save returns what the original field's class prepares for the
\* value.
C6_PreparedAsOriginal ==
    (last.op = "get_db_prep_save" /\ last.outcome = "returned") =>
        last.value = original_get_db_prep_save(fields[F], last.argv)

\* C7: get_col returns, after one "referenced in query" record, a Null
\* expression typed to output_field if given and to the field otherwise, which
\* renders as NULL with no parameters.
C7_NullColumn ==
    (last.op = "get_col" /\ last.outcome = "returned") =>
        /\ last.expr.cls = "Null"
        /\ last.expr.output_field = (IF last.argf # 0 THEN last.argf ELSE W)
        /\ last.emitted = 1
        /\ Logged(log[Len(log)], GetColFormat)
        /\ \A compiler \in {"SQLCompiler", "SQLAggregateCompiler"}, connection \in {"sqlite", "postgresql"} :
              as_sql(last.expr, compiler, connection) = [sql |-> "NULL", params |-> <<>>]

\* C7 witness: get_col with an output_field returned
C7_Witness ==
    /\ last.op = "get_col" /\ last.outcome = "returned"
    /\ last.argf = F
    /\ last.expr.output_field = F

\* C8: the error a strict Genre(name=...) raises, on a model declared with
\* deprecated(), is an instance of both DeprecatedFieldAccessError classes.
C8_ErrorIsBothClasses ==
    (last.op = "init_with" /\ last.outcome = "raised" /\ fields[W].cls = PkgField) =>
        /\ IsInstance(last.err, PkgError)
        /\ IsInstance(last.err, UtilsError)

\* C9: bulk_create of constructed instances adds no record and raises nothing.
C9_BulkCreateSilent ==
    last.op = "bulk_create" => (last.outcome = "returned" /\ last.emitted = 0)

\* C9 witness: bulk_create of two instances that were built with a value
C9_Witness ==
    /\ last.op = "bulk_create" /\ last.argf = 2
    /\ Len(log) = 2
    /\ log[1].msg = SetFormat /\ log[2].msg = SetFormat

\* C10: once the wrapper is attached its concrete flag is false, and no step
\* changes the wrapper or the original field.
C10_WrapperFrozen ==
    /\ [](Attached => fields[W].concrete = "False" /\ fields[W].original_field = F)
    /\ [](Attached /\ fields[W].cls = PkgField => fields[F].null)
    /\ [][Attached => (fields'[W] = fields[W] /\ fields'[F] = fields[F])]_vars

\* C10 witness: attached, cloned, touched and raised
C10_Witness ==
    /\ Attached
    /\ Len(fields) > W
    /\ Len(log) >= 1
    /\ last.outcome = "raised"

====
